---- MODULE Spec2Model ----
(***************************************************************************)
(* Model of font_compress.py: the zero-run RLE codec, the MSB-first bit    *)
(* packer, grid resolution, synthetic glyph injection and the batch loop.  *)
(* Python lists are 0-indexed; TLA+ sequences are 1-indexed, so element i  *)
(* of a Python list is written s[i + 1] here.                              *)
(***************************************************************************)
EXTENDS Integers, Sequences, FiniteSets, TLC

VARIABLES data, encoded, decoded, rlePc,
          pixels, packed, unpacked, packPc,
          args, img, res, batchLen, idx, outcomes, mainPc

rleVars == <<data, encoded, decoded, rlePc>>
packVars == <<pixels, packed, unpacked, packPc>>
mainVars == <<args, img, res, batchLen, idx, outcomes, mainPc>>
vars == <<rleVars, packVars, mainVars>>

\* ---------------------------------------------------------------- bounds
\* longest short byte sequence enumerated exhaustively
MaxLen == 4
\* longest single zero run fed to the encoder
MaxRun == 511
\* longest pixel buffer fed to the bit packer
MaxPixels == 16
\* largest image width and height
MaxW == 16
MaxH == 6
\* longest --batch list
MaxBatch == 2

\* ------------------------------------------------------------- constants
\* zero-run count cap of rle_compress
MaxCount == 255
\* the "set" pixel value
SetPixel == 255
\* default of --threshold
DefaultThreshold == 128
\* cell index of the synthetic glyph (127 - 32)
SolidIndex == 95
\* fallback column count
FallbackCols == 16
\* value standing for Python's None / an absent option
None == <<>>

Min(a, b) == IF a < b THEN a ELSE b

Zeros(n) == [k \in 1..n |-> 0]

\* ------------------------------------------------------------ rle_compress
\* inner while loop `while i < n and data[i] == 0x00 and count < 255`.  Every
\* iteration adds 1 to both i and count, so count < 255 holds exactly while
\* i < i0 + (255 - count0); the loop therefore exits at the least index k
\* that reaches that limit, reaches n, or holds a non-zero byte.
zero_run(d, i, count) ==
    LET limit == Min(Len(d), i + (MaxCount - count))
        stops == {k \in i..limit : k = limit \/ d[k + 1] # 0}
        e == CHOOSE k \in stops : \A m \in stops : k <= m
    IN  <<e, count + (e - i)>>

\* outer while loop
RECURSIVE rle_loop(_, _, _)
rle_loop(d, i, result) ==
    IF i < Len(d)
    THEN IF d[i + 1] = 0
         THEN LET r == zero_run(d, i + 1, 1)
              IN  rle_loop(d, r[1], result \o <<0, r[2]>>)
         ELSE rle_loop(d, i + 1, Append(result, d[i + 1]))
    ELSE result

\* faulty variant: the run is never capped
zero_run_uncapped(d, i, count) ==
    LET limit == Len(d)
        stops == {k \in i..limit : k = limit \/ d[k + 1] # 0}
        e == CHOOSE k \in stops : \A m \in stops : k <= m
    IN  <<e, count + (e - i)>>

RECURSIVE rle_loop_uncapped(_, _, _)
rle_loop_uncapped(d, i, result) ==
    IF i < Len(d)
    THEN IF d[i + 1] = 0
         THEN LET r == zero_run_uncapped(d, i + 1, 1)
              IN  rle_loop_uncapped(d, r[1], result \o <<0, r[2]>>)
         ELSE rle_loop_uncapped(d, i + 1, Append(result, d[i + 1]))
    ELSE result

rle_compress_uncapped(d) == rle_loop_uncapped(d, 0, <<>>)

\* faulty variant: a count byte follows every byte, not only 0x00
RECURSIVE rle_loop_allcount(_, _, _)
rle_loop_allcount(d, i, result) ==
    IF i < Len(d)
    THEN IF d[i + 1] = 0
         THEN LET r == zero_run(d, i + 1, 1)
              IN  rle_loop_allcount(d, r[1], result \o <<0, r[2]>>)
         ELSE rle_loop_allcount(d, i + 1, result \o <<d[i + 1], 1>>)
    ELSE result

rle_compress_allcount(d) == rle_loop_allcount(d, 0, <<>>)

rle_compress(d) == rle_loop(d, 0, <<>>)

\* ------------------------------------------- decompress_and_verify, RLE part
RECURSIVE decode_loop(_, _, _)
decode_loop(c, i, result) ==
    IF i < Len(c)
    THEN IF c[i + 1] = 0
         THEN IF i + 1 < Len(c)
              THEN decode_loop(c, i + 2, result \o Zeros(c[i + 2]))
              ELSE decode_loop(c, i + 1, Append(result, 0))
         ELSE decode_loop(c, i + 1, Append(result, c[i + 1]))
    ELSE result

\* faulty variant: the count byte is skipped but only one zero is emitted
RECURSIVE decode_loop_single(_, _, _)
decode_loop_single(c, i, result) ==
    IF i < Len(c)
    THEN IF c[i + 1] = 0
         THEN IF i + 1 < Len(c)
              THEN decode_loop_single(c, i + 2, Append(result, 0))
              ELSE decode_loop_single(c, i + 1, Append(result, 0))
         ELSE decode_loop_single(c, i + 1, Append(result, c[i + 1]))
    ELSE result

rle_decode_single(c) == decode_loop_single(c, 0, <<>>)

rle_decode(c) == decode_loop(c, 0, <<>>)

\* --------------------------------------------------------- compress_to_bits
\* inner loop over j: byte = (byte << 1) | bit.  The low bit is clear after
\* the shift, so the OR is an addition; 8 iterations keep byte below 256.
RECURSIVE pack_byte(_, _, _, _)
pack_byte(p, i, j, byte) ==
    IF j < 8
    THEN pack_byte(p, i, j + 1,
                   byte * 2 + (IF p[i + j + 1] = SetPixel THEN 1 ELSE 0))
    ELSE byte

\* faulty variant: least-significant bit first
RECURSIVE pack_byte_lsb(_, _, _, _)
pack_byte_lsb(p, i, j, byte) ==
    IF j < 8
    THEN pack_byte_lsb(p, i, j + 1,
                   byte + (2 ^ j) * (IF p[i + j + 1] = SetPixel THEN 1 ELSE 0))
    ELSE byte

compress_to_bits_lsb(p) ==
    [k \in 1..(Len(p) \div 8) |-> pack_byte_lsb(p, (k - 1) * 8, 0, 0)]

\* defined when len(pixels) % 8 == 0 (the assert is the caller's guard)
compress_to_bits(p) ==
    [k \in 1..(Len(p) \div 8) |-> pack_byte(p, (k - 1) * 8, 0, 0)]

\* byte & (1 << n) != 0
BitSet(byte, n) == (byte \div (2 ^ n)) % 2 = 1

\* faulty variant: bit index not reversed
unpack_bits_lsb(result) ==
    [k \in 1..(8 * Len(result)) |->
        IF BitSet(result[((k - 1) \div 8) + 1], (k - 1) % 8)
        THEN SetPixel ELSE 0]

\* ----------------------------------- decompress_and_verify, unpack part
unpack_bits(result) ==
    [k \in 1..(8 * Len(result)) |->
        IF BitSet(result[((k - 1) \div 8) + 1], 7 - ((k - 1) % 8))
        THEN SetPixel ELSE 0]

\* unpacked[:original_size]
Truncate(s, n) == SubSeq(s, 1, Min(n, Len(s)))

decompress_and_verify(compressed, original_size) ==
    Truncate(unpack_bits(rle_decode(compressed)), original_size)

\* ------------------------------------------------------------- detect_grid
\* pixels[x, y] of an image held row-major
Pix(im, x, y) == im.px[y * im.w + x + 1]

\* v_seps: columns whose every pixel is below the threshold, ascending
v_seps_of(im, threshold) ==
    SelectSeq([x \in 1..im.w |-> x - 1],
              LAMBDA x : \A y \in 0..(im.h - 1) : Pix(im, x, y) < threshold)

\* h_seps: rows whose every pixel is below the threshold, ascending
h_seps_of(im, threshold) ==
    SelectSeq([y \in 1..im.h |-> y - 1],
              LAMBDA y : \A x \in 0..(im.w - 1) : Pix(im, x, y) < threshold)

\* faulty variant: a grid is reported only with two separators in both axes
detect_grid_two(im, threshold) ==
    LET v_seps == v_seps_of(im, threshold)
        h_seps == h_seps_of(im, threshold)
    IN  IF Len(v_seps) > 1 /\ Len(h_seps) > 1
        THEN <<Len(v_seps) - 1, Len(h_seps) - 1,
               v_seps[2] - v_seps[1], h_seps[2] - h_seps[1]>>
        ELSE None

\* returns <<cols, rows, char_width, char_height>> or None
detect_grid(im, threshold) ==
    LET v_seps == v_seps_of(im, threshold)
        h_seps == h_seps_of(im, threshold)
    IN  IF v_seps # <<>> /\ h_seps # <<>>
        THEN <<IF Len(v_seps) > 1 THEN Len(v_seps) - 1 ELSE 1,
               IF Len(h_seps) > 1 THEN Len(h_seps) - 1 ELSE 1,
               IF Len(v_seps) > 1 THEN v_seps[2] - v_seps[1] ELSE im.w,
               IF Len(h_seps) > 1 THEN h_seps[2] - h_seps[1] ELSE im.h>>
        ELSE None

\* ---------------------------------------------------------- binarize_image
binarize_image(im, threshold) ==
    [k \in 1..(im.w * im.h) |-> IF im.px[k] < threshold THEN 0 ELSE SetPixel]

\* ----------------------------------------------------- generate_solid_char
\* the dy/dx loops write 0xFF at every (x0 + dx, y0 + dy) inside the image
generate_solid_char(p, w, h, cols, rows, char_w, char_h) ==
    LET x0 == (SolidIndex % cols) * char_w
        y0 == (SolidIndex \div cols) * char_h
    IN  [k \in 1..Len(p) |->
            LET x == (k - 1) % w
                y == (k - 1) \div w
            IN  IF /\ x >= x0 /\ x < x0 + char_w
                   /\ y >= y0 /\ y < y0 + char_h
                THEN SetPixel ELSE p[k]]

\* ------------------------------------------- process_image, grid resolution
\* a.grid and a.char_size hold the parsed "CxR" / "WxH" pairs, or None
resolve_grid(im, a) ==
    IF a.grid # None /\ a.char_size # None
    THEN [path |-> "both", cols |-> a.grid[1], rows |-> a.grid[2],
          char_w |-> a.char_size[1], char_h |-> a.char_size[2]]
    ELSE IF a.grid # None
    THEN [path |-> "grid", cols |-> a.grid[1], rows |-> a.grid[2],
          char_w |-> im.w \div a.grid[1], char_h |-> im.h \div a.grid[2]]
    ELSE IF a.char_size # None
    THEN [path |-> "char_size",
          cols |-> im.w \div a.char_size[1], rows |-> im.h \div a.char_size[2],
          char_w |-> a.char_size[1], char_h |-> a.char_size[2]]
    ELSE LET detected == detect_grid(im, a.threshold)
         IN  IF detected # None
             THEN [path |-> "detected", cols |-> detected[1],
                   rows |-> detected[2], char_w |-> detected[3],
                   char_h |-> detected[4]]
             ELSE [path |-> "fallback", cols |-> FallbackCols,
                   rows |-> (95 + FallbackCols - 1) \div FallbackCols,
                   char_w |-> im.w \div FallbackCols,
                   char_h |-> im.h \div ((95 + FallbackCols - 1) \div FallbackCols)]

\* ------------------------------------------------------------ process_image
\* One run of process_image.  log is the ordered list of what the run emits:
\* "warning" (the divisibility warning), "verified" / "verify_failed", and
\* "output" (the formatted data written to the file or stdout).  outcome is
\* how the run ends.  The --stats, --list-fonts and --preview branches only
\* print or save a copy and are left out; formatting is the identity on the
\* byte list as far as this model is concerned.
process_image(im, a) ==
    LET g == resolve_grid(im, a)
        \* w % char_w != 0 or h % char_h != 0, with short-circuit evaluation
        zdivCheck == \/ g.char_w = 0
                     \/ (im.w % g.char_w = 0 /\ g.char_h = 0)
        warn == /\ ~zdivCheck
                /\ \/ im.w % g.char_w # 0
                   \/ im.h % g.char_h # 0
        binary == binarize_image(im, a.threshold)
        zdivSolid == a.solid /\ g.cols = 0
        solidRan == ~zdivCheck /\ a.solid /\ ~zdivSolid
        after == IF solidRan
                 THEN generate_solid_char(binary, im.w, im.h, g.cols, g.rows,
                                          g.char_w, g.char_h)
                 ELSE binary
        reachedPack == ~zdivCheck /\ ~zdivSolid
        assertFail == reachedPack /\ ~a.raw /\ Len(after) % 8 # 0
        compressed == IF ~reachedPack \/ assertFail THEN <<>>
                      ELSE IF a.raw THEN after
                      ELSE rle_compress(compress_to_bits(after))
        verifyRan == reachedPack /\ ~assertFail /\ a.verify /\ ~a.raw
        verifyOk == decompress_and_verify(compressed, Len(after)) = after
        outcome == IF zdivCheck \/ zdivSolid THEN "ZeroDivisionError"
                   ELSE IF assertFail THEN "AssertionError"
                   ELSE IF verifyRan /\ ~verifyOk THEN "exit1"
                   ELSE "ok"
        log == (IF warn THEN <<"warning">> ELSE <<>>)
               \o (IF verifyRan
                   THEN IF verifyOk THEN <<"verified">> ELSE <<"verify_failed">>
                   ELSE <<>>)
               \o (IF outcome = "ok" THEN <<"output">> ELSE <<>>)
    IN  [grid |-> g, binary |-> binary, pixels |-> after, solidRan |-> solidRan,
         compressed |-> compressed, log |-> log, outcome |-> outcome]

\* ------------------------------------------------------- images and options
\* gray levels just below and exactly at the default threshold
Dark == DefaultThreshold - 1
Bright == DefaultThreshold
SepPositions == {0, 1, 5}

\* an image whose dark pixels are exactly the listed columns and rows
MkImage(w, h, vs, hs) ==
    [w |-> w, h |-> h,
     px |-> [k \in 1..(w * h) |->
               IF ((k - 1) % w) \in vs \/ ((k - 1) \div w) \in hs
               THEN Dark ELSE Bright]]

Images == {MkImage(w, h, vs, hs) :
             w \in 1..MaxW, h \in 1..MaxH,
             vs \in SUBSET SepPositions, hs \in SUBSET SepPositions}

GridArgs == {None, <<16, 5>>, <<1, 1>>, <<17, 1>>}
CharSizeArgs == {None, <<1, 1>>, <<17, 3>>}

Args == [grid : GridArgs, char_size : CharSizeArgs, solid : BOOLEAN,
         raw : BOOLEAN, verify : BOOLEAN, threshold : {DefaultThreshold}]

\* ------------------------------------------- states of the parts not running
RleIdle ==
    /\ data = <<>> /\ encoded = <<>> /\ decoded = <<>> /\ rlePc = "idle"

PackIdle ==
    /\ pixels = <<>> /\ packed = <<>> /\ unpacked = <<>> /\ packPc = "idle"

NoRes == [outcome |-> "none"]
NoImg == [w |-> 0, h |-> 0, px |-> <<>>]

MainIdle ==
    /\ args = None /\ img = NoImg /\ res = NoRes
    /\ batchLen = 0 /\ idx = 0 /\ outcomes = <<>> /\ mainPc = "idle"

\* ------------------------------------------------- main, single image mode
InitSingle ==
    /\ args \in Args
    /\ img \in Images
    /\ res = NoRes
    /\ batchLen = 0 /\ idx = 0 /\ outcomes = <<>>
    /\ mainPc = "single"
    /\ RleIdle /\ PackIdle

ProcessSingle ==
    /\ mainPc = "single"
    /\ res' = process_image(img, args)
    /\ mainPc' = IF res'.outcome = "ok" THEN "done" ELSE "crashed"
    /\ UNCHANGED <<args, img, batchLen, idx, outcomes, rleVars, packVars>>

NextSingle == ProcessSingle

SpecSingle == InitSingle /\ [][NextSingle]_vars

\* --------------------------------------------------------- main, batch mode
InitBatch ==
    /\ args \in Args
    /\ img = NoImg
    /\ res = NoRes
    /\ batchLen \in 1..MaxBatch
    /\ idx = 0
    /\ outcomes = <<>>
    /\ mainPc = "batch"
    /\ RleIdle /\ PackIdle

\* one iteration of `for img_path in args.batch`; an exception or sys.exit
\* raised by process_image is not caught and ends the process
BatchStep ==
    /\ mainPc = "batch"
    /\ idx < batchLen
    /\ \E im \in Images :
         \E o \in {process_image(im, args).outcome} :
             /\ outcomes' = Append(outcomes, o)
             /\ idx' = idx + 1
             /\ mainPc' = IF o # "ok" THEN "crashed"
                          ELSE IF idx + 1 = batchLen THEN "done"
                          ELSE "batch"
    /\ UNCHANGED <<args, img, res, batchLen, rleVars, packVars>>

NextBatch == BatchStep

SpecBatch == InitBatch /\ [][NextBatch]_vars

\* ------------------------------------------------------------------ inputs
ByteSamples == {0, 1, 255}
Literals == {<<>>, <<1>>, <<255>>}

ShortInputs == UNION {[1..n -> ByteSamples] : n \in 0..MaxLen}
LongInputs == {pre \o Zeros(n) \o post :
                 pre \in Literals, post \in Literals, n \in 1..MaxRun}
RleInputs == ShortInputs \cup LongInputs

PixelValues == {0, SetPixel}
PixelInputs == UNION {[1..n -> PixelValues] : n \in 0..MaxPixels}

\* ----------------------------------------------------------- RLE codec runs
InitRle ==
    /\ data \in RleInputs
    /\ encoded = <<>>
    /\ decoded = <<>>
    /\ rlePc = "input"
    /\ PackIdle /\ MainIdle

RleEncode ==
    /\ rlePc = "input"
    /\ encoded' = rle_compress(data)
    /\ rlePc' = "encoded"
    /\ UNCHANGED <<data, decoded, packVars, mainVars>>

RleDecode ==
    /\ rlePc = "encoded"
    /\ decoded' = rle_decode(encoded)
    /\ rlePc' = "decoded"
    /\ UNCHANGED <<data, encoded, packVars, mainVars>>

NextRle == RleEncode \/ RleDecode

SpecRle == InitRle /\ [][NextRle]_vars

\* ----------------------------------------------------------- bit packer runs
InitPack ==
    /\ pixels \in PixelInputs
    /\ packed = <<>>
    /\ unpacked = <<>>
    /\ packPc = "input"
    /\ RleIdle /\ MainIdle

\* compress_to_bits, including its assert
Pack ==
    /\ packPc = "input"
    /\ IF Len(pixels) % 8 = 0
       THEN packed' = compress_to_bits(pixels) /\ packPc' = "packed"
       ELSE packed' = packed /\ packPc' = "AssertionError"
    /\ UNCHANGED <<pixels, unpacked, rleVars, mainVars>>

Unpack ==
    /\ packPc = "packed"
    /\ unpacked' = Truncate(unpack_bits(packed), Len(pixels))
    /\ packPc' = "unpacked"
    /\ UNCHANGED <<pixels, packed, rleVars, mainVars>>

NextPack == Pack \/ Unpack

SpecPack == InitPack /\ [][NextPack]_vars

\* ================================================================== claims
\* ------------------------------------------------ SpecRle: C1, C3, C10

\* C1: for every byte sequence B, running the RLE-decoding loop of
\* decompress_and_verify on rle_compress(B) gives back exactly B, with
\* length len(B).
C1_RoundTrip ==
    rlePc = "decoded" => (decoded = data /\ Len(decoded) = Len(data))

C1_Witness ==
    /\ rlePc = "decoded"
    /\ data = <<1>> \o Zeros(256) \o <<255>>
    /\ encoded = <<1, 0, 255, 0, 1, 255>>
    /\ decoded = data

\* the pairs the run-splitting rule prescribes for a run of n zeros
RunPairs(n) ==
    [k \in 1..(2 * (n \div 255)) |-> IF k % 2 = 1 THEN 0 ELSE 255]
    \o (IF n % 255 # 0 THEN <<0, n % 255>> ELSE <<>>)

IsRunStart(d, a) == d[a] = 0 /\ (a = 1 \/ d[a - 1] # 0)

RunEnd(d, a) ==
    CHOOSE b \in a..Len(d) :
        /\ (b = Len(d) \/ d[b + 1] # 0)
        /\ \A k \in a..b : d[k] = 0

\* C3: a maximal run of n >= 1 zero bytes is encoded as floor(n/255) pairs
\* (0x00, 255) followed, only when n mod 255 # 0, by one pair
\* (0x00, n mod 255); 255 zeros give [0, 255], 256 zeros [0, 255, 0, 1];
\* every emitted value, count bytes included, is a byte and no count is 0.
C3_RunSplitting ==
    rlePc \in {"encoded", "decoded"} =>
        /\ \A a \in 1..Len(data) :
              IsRunStart(data, a) =>
                 LET b == RunEnd(data, a)
                 IN  encoded = rle_compress(SubSeq(data, 1, a - 1))
                               \o RunPairs(b - a + 1)
                               \o rle_compress(SubSeq(data, b + 1, Len(data)))
        /\ \A k \in 1..Len(encoded) : encoded[k] \in 0..255
        /\ \A a \in 1..Len(data) :
              IsRunStart(data, a) =>
                 LET p == Len(rle_compress(SubSeq(data, 1, a - 1)))
                     n == RunEnd(data, a) - a + 1
                 IN  \A k \in 1..((n + 254) \div 255) :
                        /\ encoded[p + 2 * k - 1] = 0
                        /\ encoded[p + 2 * k] \in 1..255
        /\ data = Zeros(255) => encoded = <<0, 255>>
        /\ data = Zeros(256) => encoded = <<0, 255, 0, 1>>

C3_Witness ==
    /\ rlePc = "encoded"
    /\ data = <<255>> \o Zeros(511) \o <<1>>
    /\ encoded = <<255, 0, 255, 0, 255, 0, 1, 1>>

\* C10: len(rle_compress(B)) <= 2 * len(B); the bound is met only when
\* every byte of B became its own (0x00, 1) pair, i.e. no two zeros were
\* merged into one run; a B without 0x00 is encoded as itself.
C10_Expansion ==
    rlePc \in {"encoded", "decoded"} =>
        /\ Len(encoded) <= 2 * Len(data)
        /\ Len(encoded) = 2 * Len(data) =>
              encoded = [k \in 1..(2 * Len(data)) |->
                            IF k % 2 = 1 THEN 0 ELSE 1]
        /\ (\A k \in 1..Len(data) : data[k] # 0) => encoded = data

C10_Witness ==
    /\ rlePc = "encoded"
    /\ data = <<0>>
    /\ Len(encoded) = 2 * Len(data)

\* ------------------------------------------------------ SpecPack: C2, C4

\* C2: for every pixel sequence P over {0x00, 0xFF} of length divisible by
\* 8, unpacking compress_to_bits(P) MSB-first and truncating to len(P)
\* gives back P.
C2_PackUnpack ==
    packPc = "unpacked" => unpacked = pixels

C2_Witness ==
    /\ packPc = "unpacked"
    /\ packed = <<128, 1>>
    /\ unpacked = pixels

\* C4: compress_to_bits(P) has exactly len(P) / 8 bytes, and bit (7 - j) of
\* byte i is 1 exactly when P[8i + j] = 0xFF.
C4_MsbFirst ==
    packPc = "packed" =>
        /\ 8 * Len(packed) = Len(pixels)
        /\ \A i \in 0..(Len(packed) - 1) :
              /\ packed[i + 1] \in 0..255
              /\ \A j \in 0..7 :
                    BitSet(packed[i + 1], 7 - j)
                       <=> (pixels[8 * i + j + 1] = 255)

C4_Witness ==
    /\ packPc = "packed"
    /\ Len(pixels) = 16
    /\ pixels[1] = 255 /\ pixels[16] = 255
    /\ packed = <<128, 1>>

\* --------------------------------------------- SpecSingle: C5, C7, C8, C9
Processed == mainPc \in {"done", "crashed"}

NoExplicit == args.grid = None /\ args.char_size = None

DarkColumns ==
    {x \in 0..(img.w - 1) :
        \A y \in 0..(img.h - 1) : Pix(img, x, y) < args.threshold}

DarkRows ==
    {y \in 0..(img.h - 1) :
        \A x \in 0..(img.w - 1) : Pix(img, x, y) < args.threshold}

IsFallbackGrid ==
    /\ res.grid.path = "fallback"
    /\ res.grid.cols = 16
    /\ res.grid.rows = 6
    /\ res.grid.char_w = img.w \div 16
    /\ res.grid.char_h = img.h \div 6

SizeMismatch ==
    \/ (res.grid.char_w > 0 /\ img.w % res.grid.char_w # 0)
    \/ (res.grid.char_h > 0 /\ img.h % res.grid.char_h # 0)

\* C7: whenever a run takes the fixed-policy fallback or the image size is
\* not evenly divisible by the cell size, a diagnostic is emitted before the
\* run produces its output.
C7_NoSilentDegradedPath ==
    (mainPc = "done" /\ (res.grid.path = "fallback" \/ SizeMismatch)) =>
        \E k \in 1..Len(res.log) :
            /\ res.log[k] = "warning"
            /\ \E m \in (k + 1)..Len(res.log) : res.log[m] = "output"

\* C8: after grid resolution, by any path, columns, rows, cellWidth and
\* cellHeight are all positive, so the divisibility check and the cell index
\* arithmetic are defined (no ZeroDivisionError).
C8_GridPositive ==
    Processed =>
        /\ res.grid.cols > 0
        /\ res.grid.rows > 0
        /\ res.grid.char_w > 0
        /\ res.grid.char_h > 0
        /\ res.outcome # "ZeroDivisionError"

InSolidCell(k) ==
    LET x == (k - 1) % img.w
        y == (k - 1) \div img.w
        x0 == (95 % res.grid.cols) * res.grid.char_w
        y0 == (95 \div res.grid.cols) * res.grid.char_h
    IN  /\ x >= x0 /\ x < x0 + res.grid.char_w
        /\ y >= y0 /\ y < y0 + res.grid.char_h

\* C9: with fewer than 96 cells in the grid generate_solid_char changes no
\* pixel, whatever the image and cell size; with the cell in range only
\* pixels of that cell's bounding box change, and they become 0xFF.
C9_SolidNoOp ==
    (Processed /\ res.solidRan) =>
        /\ res.grid.cols * res.grid.rows <= 95 => res.pixels = res.binary
        /\ res.grid.cols * res.grid.rows > 95 =>
              \A k \in 1..Len(res.pixels) :
                  res.pixels[k] # res.binary[k] =>
                      (InSolidCell(k) /\ res.pixels[k] = 255)

\* --------------------------------------------------------- SpecBatch: C6

\* C6: in batch mode a fatal failure of image k is reported and every later
\* image of the list is still processed, so the run never ends before the
\* last image of the list has been processed.
C6_FailureIsolation ==
    (/\ mainPc \in {"done", "crashed"}
     /\ \E k \in 1..Len(outcomes) : outcomes[k] \in {"AssertionError", "exit1"})
        => idx = batchLen

====
